---- MODULE Spec2Model ----
(***************************************************************************)
(* Hacksy agent backend (src/agent/main.py): the GitHub profile analysis   *)
(* of GitHubAnalyzer.get_user_profile and the analyzers it calls, and the   *)
(* request handling of AgentService.analyze_github_profile around it.      *)
(*                                                                         *)
(* JSON values.  A field of a fetched record is an optional value: the key *)
(* is absent (Missing), present with JSON null (Null) or present with a    *)
(* value (Val(x)).  Strings that the code searches or lower-cases are      *)
(* sequences of one-character strings; strings that are only compared or   *)
(* counted (language, event type) are TLA+ strings.  A timestamp string is *)
(* what datetime.fromisoformat makes of it: a day number, or a failure.    *)
(* Scores that are floats in the code are kept exact, scaled by 100.       *)
(***************************************************************************)
EXTENDS Integers, Sequences, FiniteSets, TLC

VARIABLES upstream, hashSeed, pc, user_data, repos_data, events_data,
          repo_analysis, activity_analysis, all_languages, profile, error,
          first_profile, issued, username, agent_name, agents, model, response

vars == <<upstream, hashSeed, pc, user_data, repos_data, events_data,
          repo_analysis, activity_analysis, all_languages, profile, error,
          first_profile, issued, username, agent_name, agents, model, response>>

\* the request, the configuration and the response of AgentService
serviceVars == <<username, agent_name, agents, model, response>>

-----------------------------------------------------------------------------
(* Optional JSON values and Python's dict access *)

Val(x) == <<"val", x>>
Null == <<"null">>
Missing == <<"missing">>
IsVal(o) == o[1] = "val"
IsNull(o) == o[1] = "null"
IsMissing(o) == o[1] = "missing"

\* d.get(k, default) for a numeric field whose null case the caller has excluded
GetNum(o, default) == IF IsVal(o) THEN o[2] ELSE default

\* (d.get(k) or ''): null, missing and '' all give ''
GetTextOrEmpty(o) == IF IsVal(o) THEN o[2] ELSE <<>>

\* truthiness of d.get(k) for a list or string field
Truthy(o) == IsVal(o) /\ o[2] # <<>>

Min(a, b) == IF a < b THEN a ELSE b
Max(a, b) == IF a > b THEN a ELSE b

\* s[:n]
Take(s, n) == SubSeq(s, 1, Min(n, Len(s)))

-----------------------------------------------------------------------------
(* str.lower() and the substring test `term in text` *)

UpperLetters ==
  <<"A","B","C","D","E","F","G","H","I","J","K","L","M",
    "N","O","P","Q","R","S","T","U","V","W","X","Y","Z">>
LowerLetters ==
  <<"a","b","c","d","e","f","g","h","i","j","k","l","m",
    "n","o","p","q","r","s","t","u","v","w","x","y","z">>

LowerChar(c) ==
  IF \E i \in 1..26 : UpperLetters[i] = c
  THEN LowerLetters[CHOOSE i \in 1..26 : UpperLetters[i] = c]
  ELSE c

Lower(t) == [i \in 1..Len(t) |-> LowerChar(t[i])]

Contains(term, text) ==
  \E i \in 1..(Len(text) - Len(term) + 1) :
     \A j \in 1..Len(term) : text[i + j - 1] = term[j]

\* any(term in name or term in desc for term in terms)
AnyTermIn(terms, name, desc) ==
  \E k \in 1..Len(terms) : Contains(terms[k], name) \/ Contains(terms[k], desc)

\* x in [a, b, c]
InList(x, list) == \E k \in 1..Len(list) : list[k] = x

-----------------------------------------------------------------------------
(* Keyword tables *)

\* line 198
FrontendKeywords ==
  << <<"r","e","a","c","t">>,
     <<"v","u","e">>,
     <<"a","n","g","u","l","a","r">> >>

\* line 200
BackendKeywords ==
  << <<"d","j","a","n","g","o">>,
     <<"f","l","a","s","k">>,
     <<"f","a","s","t","a","p","i">>,
     <<"e","x","p","r","e","s","s">> >>

\* line 202
AiMlKeywords ==
  << <<"m","l">>,
     <<"a","i">>,
     <<"n","e","u","r","a","l">>,
     <<"t","e","n","s","o","r","f","l","o","w">>,
     <<"p","y","t","o","r","c","h">> >>

\* line 204
ApiKeywords ==
  << <<"a","p","i">>,
     <<"r","e","s","t">>,
     <<"g","r","a","p","h","q","l">> >>

\* line 206
MobileKeywords ==
  << <<"m","o","b","i","l","e">>,
     <<"a","n","d","r","o","i","d">>,
     <<"i","o","s">>,
     <<"f","l","u","t","t","e","r">> >>

\* line 345
WebTerms ==
  << <<"w","e","b">>,
     <<"w","e","b","s","i","t","e">>,
     <<"f","r","o","n","t","e","n","d">>,
     <<"b","a","c","k","e","n","d">>,
     <<"f","u","l","l","s","t","a","c","k">> >>

\* line 349
DataTerms ==
  << <<"d","a","t","a">>,
     <<"m","l">>,
     <<"a","i">>,
     <<"m","a","c","h","i","n","e">>,
     <<"n","e","u","r","a","l">>,
     <<"a","n","a","l","y","s","i","s">> >>

\* line 353
MobileTerms ==
  << <<"m","o","b","i","l","e">>,
     <<"a","n","d","r","o","i","d">>,
     <<"i","o","s">>,
     <<"a","p","p">>,
     <<"f","l","u","t","t","e","r">>,
     <<"r","e","a","c","t","-","n","a","t","i","v","e">> >>

\* line 357
DevOpsTerms ==
  << <<"d","o","c","k","e","r">>,
     <<"k","u","b","e","r","n","e","t","e","s">>,
     <<"c","i">>,
     <<"c","d">>,
     <<"d","e","p","l","o","y">>,
     <<"i","n","f","r","a","s","t","r","u","c","t","u","r","e">> >>

\* line 361
GameTerms ==
  << <<"g","a","m","e">>,
     <<"u","n","i","t","y">>,
     <<"p","y","g","a","m","e">>,
     <<"g","a","m","i","n","g">> >>

\* line 365
ChainTerms ==
  << <<"b","l","o","c","k","c","h","a","i","n">>,
     <<"c","r","y","p","t","o">>,
     <<"w","e","b","3">>,
     <<"s","m","a","r","t">>,
     <<"c","o","n","t","r","a","c","t">> >>

\* line 371
AiTopics ==
  << <<"m","a","c","h","i","n","e","-","l","e","a","r","n","i","n","g">>,
     <<"a","r","t","i","f","i","c","i","a","l","-","i","n","t","e","l","l","i","g","e","n","c","e">>,
     <<"d","e","e","p","-","l","e","a","r","n","i","n","g">> >>

\* line 373
WebTopics ==
  << <<"w","e","b","-","d","e","v","e","l","o","p","m","e","n","t">>,
     <<"f","r","o","n","t","e","n","d">>,
     <<"b","a","c","k","e","n","d">> >>

\* line 375
MobileTopics ==
  << <<"m","o","b","i","l","e">>,
     <<"a","n","d","r","o","i","d">>,
     <<"i","o","s">> >>


-----------------------------------------------------------------------------
(* The reference instant: datetime.now(), as a day number *)

Now == 4000

\* datetime.fromisoformat(s.replace('Z', '+00:00')): a day, or ValueError
Ts(d) == [ok |-> TRUE, day |-> d]
BadTs == [ok |-> FALSE, day |-> 0]

\* the value a try block gets from fromisoformat(rec[k].replace(...)):
\* a missing key (KeyError), null (AttributeError) and an unparseable
\* string (ValueError) all leave the try block
Parses(o) == IsVal(o) /\ o[2].ok

\* t > datetime.now() - timedelta(days=n)
Within(o, n) == Parses(o) /\ o[2].day > Now - n

-----------------------------------------------------------------------------
(* collections.Counter and sorted(..., reverse=True) *)

RECURSIVE SumSeq(_)
SumSeq(s) == IF s = <<>> THEN 0 ELSE Head(s) + SumSeq(Tail(s))

RECURSIVE Concat(_)
Concat(ss) == IF ss = <<>> THEN <<>> ELSE Head(ss) \o Concat(Tail(ss))

\* dict keys in insertion order: the distinct items, first seen first
RECURSIVE CounterKeys(_)
CounterKeys(items) ==
  IF items = <<>> THEN <<>>
  ELSE LET front == CounterKeys(SubSeq(items, 1, Len(items) - 1))
           last == items[Len(items)]
       IN  IF InList(last, front) THEN front ELSE Append(front, last)

CountOf(x, items) == Cardinality({i \in 1..Len(items) : items[i] = x})

\* one step of the stable descending sort: k goes after every element whose
\* weight is at least its own, so equal weights keep their original order
RECURSIVE InsertDesc(_, _, _)
InsertDesc(sorted, k, w) ==
  IF sorted = <<>> THEN <<k>>
  ELSE IF w[Head(sorted)] >= w[k]
       THEN <<Head(sorted)>> \o InsertDesc(Tail(sorted), k, w)
       ELSE <<k>> \o sorted

\* sorted(keys, key=w, reverse=True)
RECURSIVE SortDesc(_, _)
SortDesc(keys, w) ==
  IF keys = <<>> THEN <<>>
  ELSE InsertDesc(SortDesc(SubSeq(keys, 1, Len(keys) - 1), w), keys[Len(keys)], w)

Range(s) == {s[i] : i \in 1..Len(s)}

\* most_common() with the count forgotten
MostCommonUncapped(items, n) ==
  LET keys == CounterKeys(items)
      w == [x \in Range(keys) |-> CountOf(x, items)]
  IN  SortDesc(keys, w)

\* [x for x, count in Counter(items).most_common(n)]
MostCommon(items, n) ==
  LET keys == CounterKeys(items)
      w == [x \in Range(keys) |-> CountOf(x, items)]
  IN  Take(SortDesc(keys, w), n)

\* list(set(labels)): the iteration order of a set of strings follows their
\* hashes, which str hash randomisation draws anew for every interpreter
\* process; hashSeed stands for that draw
LabelOrder ==
  <<"Frontend Framework", "Backend Framework", "AI/ML", "API Development",
    "Mobile Development">>

Reverse(s) == [i \in 1..Len(s) |-> s[Len(s) + 1 - i]]

ListOfSet(S, seed) ==
  LET base == SelectSeq(LabelOrder, LAMBDA x : x \in S)
  IN  IF seed % 2 = 1 THEN base ELSE Reverse(base)

-----------------------------------------------------------------------------
(* GitHubAnalyzer._analyze_repositories *)

\* the loop body raises on `+= None` (stars, forks) and on `None.lower()`
RepoStatsRaise(repo) ==
  IsNull(repo.stargazers_count) \/ IsNull(repo.forks_count)
RepoNameRaises(repo) == IsNull(repo.name)

\* repo.get('name', '').lower() and (repo.get('description') or '').lower()
RepoNameLower(repo) == Lower(GetTextOrEmpty(repo.name))
RepoDescLower(repo) == Lower(GetTextOrEmpty(repo.description))

RepoFrameworks(repo) ==
  LET name == RepoNameLower(repo)
      desc == RepoDescLower(repo)
  IN  (IF AnyTermIn(FrontendKeywords, name, desc) THEN {"Frontend Framework"} ELSE {})
      \cup
      (IF AnyTermIn(BackendKeywords, name, desc) THEN {"Backend Framework"} ELSE {})

RepoProjectTypes(repo) ==
  LET name == RepoNameLower(repo)
      desc == RepoDescLower(repo)
  IN  (IF AnyTermIn(AiMlKeywords, name, desc) THEN {"AI/ML"} ELSE {})
      \cup
      (IF AnyTermIn(ApiKeywords, name, desc) THEN {"API Development"} ELSE {})
      \cup
      (IF AnyTermIn(MobileKeywords, name, desc) THEN {"Mobile Development"} ELSE {})

\* if repo.get('topics'): all_topics.extend(repo['topics'])
RepoTopics(repo) == IF Truthy(repo.topics) THEN repo.topics[2] ELSE <<>>

\* if repo.get('updated_at'): try: updated > now - 180 days
RepoRecentlyUpdated(repo) == Within(repo.updated_at, 180)

\* the star boundary taken as inclusive
ComplexityTierInclusive(total_stars, total_forks, count) ==
  IF total_stars >= 50 * Max(count, 1) \/ total_forks > 20 THEN "advanced"
  ELSE IF total_stars < 5 * Max(count, 1) /\ total_forks < 3 THEN "beginner"
  ELSE "intermediate"

\* avg_stars = total_stars / max(len(repos), 1), compared exactly
ComplexityTier(total_stars, total_forks, count) ==
  IF total_stars > 50 * Max(count, 1) \/ total_forks > 20 THEN "advanced"
  ELSE IF total_stars < 5 * Max(count, 1) /\ total_forks < 3 THEN "beginner"
  ELSE "intermediate"

RepositoriesRaise(repos) ==
  \E i \in 1..Len(repos) : RepoStatsRaise(repos[i]) \/ RepoNameRaises(repos[i])

\* the exception of the first repository that raises
RepositoriesErrorKind(repos) ==
  LET bad == {i \in 1..Len(repos) : RepoStatsRaise(repos[i]) \/ RepoNameRaises(repos[i])}
      firstBad == CHOOSE i \in bad : \A j \in bad : i <= j
  IN  IF RepoStatsRaise(repos[firstBad]) THEN "TypeError" ELSE "AttributeError"

AnalyzeRepositories(repos, seed) ==
  LET n == Len(repos)
      total_stars == SumSeq([i \in 1..n |-> GetNum(repos[i].stargazers_count, 0)])
      total_forks == SumSeq([i \in 1..n |-> GetNum(repos[i].forks_count, 0)])
      all_topics == Concat([i \in 1..n |-> RepoTopics(repos[i])])
      frameworks == UNION {RepoFrameworks(repos[i]) : i \in 1..n}
      project_types == UNION {RepoProjectTypes(repos[i]) : i \in 1..n}
  IN  [total_stars |-> total_stars,
       total_forks |-> total_forks,
       avg_complexity |-> ComplexityTier(total_stars, total_forks, n),
       popular_topics |-> MostCommon(all_topics, 5),
       frameworks_used |-> ListOfSet(frameworks, seed),
       project_types |-> ListOfSet(project_types, seed),
       recent_activity |-> \E i \in 1..n : RepoRecentlyUpdated(repos[i])]

-----------------------------------------------------------------------------
(* GitHubAnalyzer._analyze_activity_patterns *)

DefaultActivity ==
  [recent_activity_score |-> 0, activity_type |-> "moderate",
   collaboration_level |-> "individual"]

\* the event types counted outside the recency test
RECURSIVE ScanEventsAnyAge(_, _)
ScanEventsAnyAge(events, acc) ==
  IF events = <<>> THEN acc
  ELSE LET ev == Head(events)
           isType(names) == IsVal(ev.type) /\ ev.type[2] \in names
           next ==
             IF Parses(ev.created_at)
             THEN [recent_events |-> acc.recent_events
                        + (IF Within(ev.created_at, 30) THEN 1 ELSE 0),
                   push_events |-> acc.push_events
                        + (IF isType({"PushEvent"}) THEN 1 ELSE 0),
                   pr_events |-> acc.pr_events
                        + (IF isType({"PullRequestEvent", "IssuesEvent"}) THEN 1 ELSE 0)]
             ELSE acc
       IN  ScanEventsAnyAge(Tail(events), next)

\* one pass of the loop over events_data; an exception anywhere in the try
\* block (also event['type'] on a record without that key, after the event
\* was counted as recent) skips to the next event
RECURSIVE ScanEvents(_, _)
ScanEvents(events, acc) ==
  IF events = <<>> THEN acc
  ELSE LET ev == Head(events)
           isType(names) == IsVal(ev.type) /\ ev.type[2] \in names
           next ==
             IF Within(ev.created_at, 30)
             THEN [recent_events |-> acc.recent_events + 1,
                   push_events |-> acc.push_events
                        + (IF isType({"PushEvent"}) THEN 1 ELSE 0),
                   pr_events |-> acc.pr_events
                        + (IF isType({"PullRequestEvent", "IssuesEvent"}) THEN 1 ELSE 0)]
             ELSE acc
       IN  ScanEvents(Tail(events), next)

ActivityScore(recent_events) == Min(recent_events * 3, 100)

\* the boundaries taken as inclusive
ActivityTypeInclusive(recent_events) ==
  IF recent_events >= 20 THEN "very_active"
  ELSE IF recent_events >= 10 THEN "active"
  ELSE IF recent_events >= 3 THEN "moderate"
  ELSE "low"

ActivityType(recent_events) ==
  IF recent_events > 20 THEN "very_active"
  ELSE IF recent_events > 10 THEN "active"
  ELSE IF recent_events > 3 THEN "moderate"
  ELSE "low"

\* pr_events > push_events * 0.3, compared exactly
CollaborationLevel(pr_events, push_events) ==
  IF 10 * pr_events > 3 * push_events THEN "collaborative"
  ELSE IF pr_events > 0 THEN "mixed"
  ELSE "individual"

\* the early return for an empty event list forgotten
AnalyzeActivityPatternsNoDefault(events) ==
  LET c == ScanEvents(events, [recent_events |-> 0, push_events |-> 0,
                               pr_events |-> 0])
  IN  [recent_activity_score |-> ActivityScore(c.recent_events),
       activity_type |-> ActivityType(c.recent_events),
       collaboration_level |-> CollaborationLevel(c.pr_events, c.push_events)]

AnalyzeActivityPatterns(events) ==
  IF events = <<>> THEN DefaultActivity
  ELSE LET c == ScanEvents(events, [recent_events |-> 0, push_events |-> 0,
                                    pr_events |-> 0])
       IN  [recent_activity_score |-> ActivityScore(c.recent_events),
            activity_type |-> ActivityType(c.recent_events),
            collaboration_level |-> CollaborationLevel(c.pr_events, c.push_events)]

-----------------------------------------------------------------------------
(* GitHubAnalyzer._calculate_expertise_level; scores are scaled by 100 *)

\* int(x) of a quotient: truncation toward zero
TruncDiv(a, b) == IF a >= 0 THEN a \div b ELSE -((-a) \div b)

\* min(int(days / 365 * 10), 30), or 10 when the try block is left
AccountAgeFactor(user) ==
  IF Parses(user.created_at)
  THEN Min(TruncDiv((Now - user.created_at[2].day) * 10, 365), 30)
  ELSE 10

RepoCountFactor(user) == Min(GetNum(user.public_repos, 0) * 2, 25)

\* min(followers * 0.5, 20), times 100
FollowersFactor100(user) == Min(GetNum(user.followers, 0) * 50, 2000)

\* recent_activity_score * 0.15, times 100
ActivityFactor100(activity) == activity.recent_activity_score * 15

\* min(int(total_stars * 0.2), 10) over repos_data[:10]
ComplexityFactor(repos) ==
  LET top == Take(repos, 10)
      total_stars == SumSeq([i \in 1..Len(top) |-> GetNum(top[i].stargazers_count, 0)])
  IN  Min(TruncDiv(total_stars, 5), 10)

ExpertiseScore100(user, repos, activity) ==
  AccountAgeFactor(user) * 100 + RepoCountFactor(user) * 100
    + FollowersFactor100(user) + ActivityFactor100(activity)
    + ComplexityFactor(repos) * 100

\* the boundaries taken as inclusive
ExpertiseTierInclusive(score100) ==
  IF score100 >= 7000 THEN "expert"
  ELSE IF score100 >= 4000 THEN "intermediate"
  ELSE IF score100 >= 1500 THEN "beginner"
  ELSE "newcomer"

ExpertiseTier(score100) ==
  IF score100 > 7000 THEN "expert"
  ELSE IF score100 > 4000 THEN "intermediate"
  ELSE IF score100 > 1500 THEN "beginner"
  ELSE "newcomer"

\* None * 2, None * 0.5 and sum() over a None raise TypeError
ExpertiseRaises(user, repos) ==
  \/ IsNull(user.public_repos)
  \/ IsNull(user.followers)
  \/ \E i \in 1..Min(10, Len(repos)) : IsNull(repos[i].stargazers_count)

CalculateExpertiseLevel(user, repos, activity) ==
  ExpertiseTier(ExpertiseScore100(user, repos, activity))

-----------------------------------------------------------------------------
(* GitHubAnalyzer._extract_project_domains *)

TopicDomain(topic) ==
  LET topic_lower == Lower(topic)
  IN  IF InList(topic_lower, AiTopics) THEN <<"Data Science & AI">>
      ELSE IF InList(topic_lower, WebTopics) THEN <<"Web Development">>
      ELSE IF InList(topic_lower, MobileTopics) THEN <<"Mobile Development">>
      ELSE <<>>

\* what one repository appends to `domains`, in the order of the appends
RepoDomains(repo) ==
  LET name == Lower(GetTextOrEmpty(repo.name))
      desc == Lower(GetTextOrEmpty(repo.description))
      topics == IF IsVal(repo.topics) THEN repo.topics[2] ELSE <<>>
      hit(terms, label) == IF AnyTermIn(terms, name, desc) THEN <<label>> ELSE <<>>
  IN  hit(WebTerms, "Web Development")
      \o hit(DataTerms, "Data Science & AI")
      \o hit(MobileTerms, "Mobile Development")
      \o hit(DevOpsTerms, "DevOps & Infrastructure")
      \o hit(GameTerms, "Game Development")
      \o hit(ChainTerms, "Blockchain & Web3")
      \o Concat([i \in 1..Len(topics) |-> TopicDomain(topics[i])])

\* `for topic in None` raises TypeError
DomainsRaise(repos) == \E i \in 1..Min(15, Len(repos)) : IsNull(repos[i].topics)

DomainsList(repos) == Concat([i \in 1..Len(repos) |-> RepoDomains(repos[i])])

\* the [:15] slice forgotten
ExtractProjectDomainsAll(repos) == MostCommon(DomainsList(repos), 5)

ExtractProjectDomains(repos) == MostCommon(DomainsList(Take(repos, 15)), 5)

-----------------------------------------------------------------------------
(* GitHubAnalyzer._analyze_collaboration_style *)

ForkedRepos(repos) ==
  Cardinality({i \in 1..Len(repos) : IsVal(repos[i].fork) /\ repos[i].fork[2]})

CollabEvents(events) ==
  Cardinality({i \in 1..Len(events) :
     IsVal(events[i].type)
     /\ events[i].type[2] \in {"PullRequestEvent", "IssuesEvent", "ForkEvent"}})

\* the forked share of all repositories compared with one half
AnalyzeCollaborationStyleByRatio(repos, events) ==
  LET forked_repos == ForkedRepos(repos)
      collab_events == CollabEvents(events)
  IN  IF 2 * forked_repos > Len(repos) \/ collab_events > 5 THEN "collaborative"
      ELSE IF forked_repos > 0 \/ collab_events > 0 THEN "mixed"
      ELSE "independent"

\* forked_repos > original_repos * 0.5, compared exactly
AnalyzeCollaborationStyle(repos, events) ==
  LET forked_repos == ForkedRepos(repos)
      original_repos == Len(repos) - forked_repos
      collab_events == CollabEvents(events)
  IN  IF 2 * forked_repos > original_repos \/ collab_events > 5 THEN "collaborative"
      ELSE IF forked_repos > 0 \/ collab_events > 0 THEN "mixed"
      ELSE "independent"

-----------------------------------------------------------------------------
(* get_user_profile, lines 120-135: language statistics *)

HasLanguage(repo) == IsVal(repo.language) /\ repo.language[2] # ""

\* (stars + 1) * (size + 1) raises TypeError on a null
LanguageStatsRaise(repos) ==
  \E i \in 1..Len(repos) :
     HasLanguage(repos[i])
     /\ (IsNull(repos[i].stargazers_count) \/ IsNull(repos[i].size))

RepoWeight(repo) ==
  (GetNum(repo.stargazers_count, 0) + 1) * (GetNum(repo.size, 1) + 1)

LanguageStats(repos) ==
  LET idx == SelectSeq([i \in 1..Len(repos) |-> i], LAMBDA i : HasLanguage(repos[i]))
      langs == [k \in 1..Len(idx) |-> repos[idx[k]].language[2]]
      keys == CounterKeys(langs)
      languages == [l \in Range(keys) |-> CountOf(l, langs)]
      language_bytes ==
        [l \in Range(keys) |->
           SumSeq([k \in 1..Len(idx) |->
              IF langs[k] = l THEN RepoWeight(repos[idx[k]]) ELSE 0])]
      top_languages_by_count == Take(SortDesc(keys, languages), 8)
      top_languages_by_bytes == Take(SortDesc(keys, language_bytes), 8)
  IN  Take(CounterKeys(top_languages_by_bytes \o top_languages_by_count), 10)

-----------------------------------------------------------------------------
(* get_user_profile, lines 137-160: the returned dictionary *)

\* [repo['name'] for repo in repos_data[:5]] raises KeyError on a missing key
RecentReposRaise(repos) == \E i \in 1..Min(5, Len(repos)) : IsMissing(repos[i].name)

AssembleRaises(user, repos) ==
  RecentReposRaise(repos) \/ ExpertiseRaises(user, repos) \/ DomainsRaise(repos)

AssembleErrorKind(user, repos) ==
  IF RecentReposRaise(repos) THEN "KeyError" ELSE "TypeError"

AssembleProfile(user, repos, events, ra, aa, langs) ==
  [public_repos |-> GetNum(user.public_repos, 0),
   followers |-> GetNum(user.followers, 0),
   languages |-> langs,
   created_at |-> user.created_at,
   repository_count |-> Len(repos),
   recent_repos |-> [i \in 1..Min(5, Len(repos)) |-> repos[i].name],
   repo_analysis |-> ra,
   activity_analysis |-> aa,
   expertise_level |-> CalculateExpertiseLevel(user, repos, aa),
   preferred_domains |-> ExtractProjectDomains(repos),
   collaboration_style |-> AnalyzeCollaborationStyle(repos, events),
   recent_activity_score |-> aa.recent_activity_score,
   technology_diversity |-> Len(langs),
   project_complexity_preference |-> ra.avg_complexity]

-----------------------------------------------------------------------------
(* Fetched records: the inputs of the analysis *)

Repo(name, description, language, stars, forks, size, topics, updated_at, fork) ==
  [name |-> name, description |-> description, language |-> language,
   stargazers_count |-> stars, forks_count |-> forks, size |-> size,
   topics |-> topics, updated_at |-> updated_at, fork |-> fork]

Event(type, created_at) == [type |-> type, created_at |-> created_at]

User(created_at, public_repos, followers) ==
  [created_at |-> created_at, public_repos |-> public_repos, followers |-> followers]

\* n copies of x
Rep(x, n) == [i \in 1..n |-> x]

\* all sequences over S of length at most n
SeqsUpTo(S, n) == UNION {[1..k -> S] : k \in 0..n}

Bundle(user, repos, events) ==
  [user_status |-> 200, user |-> user, repos_status |-> 200, repos |-> repos,
   events_status |-> 200, events |-> events]

TxtReactDjango == <<"R","e","a","c","t","-","D","j","a","n","g","o">>
TxtMlApi == <<"m","l","-","a","p","i">>
TxtNotes == <<"n","o","t","e","s">>
TxtWeb3Game == <<"w","e","b","3","-","g","a","m","e">>
TxtMobileApp == <<"m","o","b","i","l","e","-","a","p","p">>
TxtDockerDeploy == <<"d","o","c","k","e","r","-","d","e","p","l","o","y">>
TxtAllSix == <<"W","e","b","-","D","a","t","a","-","A","p","p","-","C","I","-","G","a","m","e","-","C","r","y","p","t","o">>
TxtFlaskRest == <<"F","l","a","s","k"," ","R","E","S","T">>
TxtFrontend == <<"F","r","o","n","t","e","n","d">>
TxtCli == <<"c","l","i">>
TxtMachineLearning == <<"M","a","c","h","i","n","e","-","L","e","a","r","n","i","n","g">>
TxtAndroid == <<"a","n","d","r","o","i","d">>
TxtRust == <<"r","u","s","t">>
TxtDocs == <<"d","o","c","s">>
TxtGo == <<"g","o">>
TxtTools == <<"t","o","o","l","s">>

\* a repository with every field present
PlainRepo(name, stars, forks) ==
  Repo(Val(name), Val(<<>>), Val(""), Val(stars), Val(forks), Val(0),
       Val(<<>>), Val(Ts(Now - 400)), Val(FALSE))

ValidUser == User(Val(Ts(Now - 400)), Val(3), Val(2))

RecentPush == Event(Val("PushEvent"), Val(Ts(Now - 1)))
RecentPR == Event(Val("PullRequestEvent"), Val(Ts(Now - 2)))
RecentIssue == Event(Val("IssuesEvent"), Val(Ts(Now - 29)))
RecentNoType == Event(Missing, Val(Ts(Now - 3)))
OldPR == Event(Val("PullRequestEvent"), Val(Ts(Now - 30)))
OldFork == Event(Val("ForkEvent"), Val(Ts(Now - 90)))
OldPush == Event(Val("PushEvent"), Val(Ts(Now - 31)))
BadTsPush == Event(Val("PushEvent"), Val(BadTs))
NoTsPR == Event(Val("PullRequestEvent"), Missing)
NullEvent == Event(Null, Null)

(* Sparse records: optional fields missing or null *)
MaxSparseRepos == 2

FullRepo ==
  Repo(Val(TxtReactDjango), Val(TxtFlaskRest), Val("Python"), Val(3), Val(1),
       Val(10), Val(<<TxtFrontend, TxtCli>>), Val(Ts(Now - 10)), Val(FALSE))
ForkedMlRepo ==
  Repo(Val(TxtMlApi), Missing, Val("Go"), Val(7), Val(2), Missing,
       Val(<<TxtMachineLearning>>), Val(BadTs), Val(TRUE))
EmptyRepo ==
  Repo(Missing, Missing, Missing, Missing, Missing, Missing, Missing, Missing, Missing)
NullOptionalsRepo ==
  Repo(Val(TxtMobileApp), Null, Null, Val(0), Val(0), Null, Missing, Null, Null)
NullNameRepo ==
  Repo(Null, Val(TxtFlaskRest), Val("Python"), Val(1), Val(0), Val(1),
       Val(<<>>), Val(Ts(Now - 200)), Val(FALSE))
NullStarsRepo ==
  Repo(Val(TxtNotes), Val(<<>>), Missing, Null, Val(0), Val(1),
       Val(<<>>), Missing, Val(FALSE))
NullTopicsRepo ==
  Repo(Val(TxtNotes), Val(<<>>), Val("Go"), Val(1), Missing, Val(1),
       Null, Val(Ts(Now - 180)), Val(FALSE))
NullSizeRepo ==
  Repo(Val(TxtDockerDeploy), Val(<<>>), Val("Shell"), Val(1), Val(0), Null,
       Val(<<TxtCli>>), Val(Ts(Now - 179)), Missing)

SparseRepos ==
  {FullRepo, ForkedMlRepo, EmptyRepo, NullOptionalsRepo, NullNameRepo,
   NullStarsRepo, NullTopicsRepo, NullSizeRepo}

SparseEventLists ==
  {<<>>, <<RecentPush>>, <<NullEvent, RecentPR>>, <<NoTsPR, BadTsPush>>,
   <<RecentNoType, OldFork>>}

SparseUsers == {ValidUser, User(Missing, Missing, Missing)}

SparseBundles ==
  {Bundle(u, r, e) : u \in SparseUsers, r \in SeqsUpTo(SparseRepos, MaxSparseRepos),
                     e \in SparseEventLists}

(* Expertise inputs: account age, repository count, followers, activity, stars *)
ExpertiseCreated ==
  {Missing, Val(BadTs), Val(Ts(Now - 400)), Val(Ts(Now - 1825))}
ExpertisePublicRepos == {Missing, Val(12), Val(40)}
ExpertiseFollowers ==
  {Val(0), Val(1), Val(10), Val(12), Val(29), Val(30), Val(32), Val(100)}
ExpertiseEventCounts == {0, 1, 20, 34}
ExpertiseRepoLists ==
  {<<>>, <<PlainRepo(TxtNotes, 4, 0)>>,
   <<PlainRepo(TxtNotes, 10, 0), PlainRepo(TxtNotes, 20, 0)>>,
   Rep(PlainRepo(TxtNotes, 0, 0), 10) \o <<PlainRepo(TxtNotes, 60, 0)>>}

ExpertiseBundles ==
  {Bundle(User(c, p, f), r, Rep(RecentPush, n)) :
     c \in ExpertiseCreated, p \in ExpertisePublicRepos, f \in ExpertiseFollowers,
     r \in ExpertiseRepoLists, n \in ExpertiseEventCounts}
  \cup {Bundle(User(Val(Ts(Now + 400)), Val(1), Val(0)), <<>>, <<>>)}

(* Complexity inputs: star and fork totals around the thresholds *)
ComplexityRepos ==
  {PlainRepo(TxtNotes, 0, 0), PlainRepo(TxtNotes, 4, 0), PlainRepo(TxtNotes, 5, 1),
   PlainRepo(TxtNotes, 50, 2), PlainRepo(TxtNotes, 51, 0), PlainRepo(TxtNotes, 0, 3),
   Repo(Val(TxtNotes), Missing, Missing, Missing, Missing, Missing, Missing,
        Missing, Missing)}
ComplexityHeadCounts == {0, 1, 9, 10, 20}
ComplexityTailCounts == {0, 1, 2}
ComplexityRepoLists ==
  {Rep(a, m) \o Rep(b, n) : a \in ComplexityRepos, m \in ComplexityHeadCounts,
                            b \in ComplexityRepos, n \in ComplexityTailCounts}
  \cup {Rep(PlainRepo(TxtNotes, 50, 0), 20) \o <<PlainRepo(TxtNotes, 5000, 30)>>}

ComplexityBundles == {Bundle(ValidUser, r, <<>>) : r \in ComplexityRepoLists}

(* Activity inputs: events inside and outside the 30-day window *)
PushCounts == {0, 1, 3, 4, 10, 11, 20, 21, 33, 34}
PullRequestCounts == {0, 1, 3, 4}
ActivityEventLists ==
  {Rep(RecentPush, a) \o Rep(RecentPR, b) \o Rep(RecentIssue, c)
     \o Rep(RecentNoType, e) \o Rep(OldPR, d) \o Rep(BadTsPush, d) \o Rep(NoTsPR, d) :
     a \in PushCounts, b \in PullRequestCounts, c \in {0, 1}, e \in {0, 1},
     d \in {0, 2}}

ActivityBundles == {Bundle(ValidUser, <<>>, e) : e \in ActivityEventLists}

(* Collaboration-style inputs: forked and original repositories *)
MaxForked == 6
MaxOriginal == 5
ForkedRepo ==
  Repo(Val(TxtNotes), Val(<<>>), Val(""), Val(0), Val(0), Val(0), Val(<<>>),
       Val(Ts(Now - 400)), Val(TRUE))
OriginalRepos ==
  {PlainRepo(TxtNotes, 0, 0),
   Repo(Val(TxtNotes), Val(<<>>), Val(""), Val(0), Val(0), Val(0), Val(<<>>),
        Val(Ts(Now - 400)), Missing)}
CollabEventLists ==
  {<<>>, <<OldFork>>, Rep(OldPR, 5), Rep(OldPush, 6),
   <<OldPR, OldFork, RecentIssue, RecentPR, OldFork, RecentIssue>>}

CollabBundles ==
  {Bundle(ValidUser, Rep(ForkedRepo, f) \o Rep(o, n), e) :
     f \in 0..MaxForked, o \in OriginalRepos, n \in 0..MaxOriginal,
     e \in CollabEventLists}

(* Domain inputs: keyword and topic matches, in and after the first 15 *)
MaxDomainRepos == 2
NamedRepo(name, topics) ==
  Repo(Val(name), Null, Val(""), Val(0), Val(0), Val(0), Val(topics),
       Val(Ts(Now - 400)), Val(FALSE))
DomainRepos ==
  {NamedRepo(TxtNotes, <<>>), NamedRepo(TxtWeb3Game, <<>>), NamedRepo(TxtMlApi, <<>>),
   NamedRepo(TxtMobileApp, <<>>), NamedRepo(TxtDockerDeploy, <<>>),
   NamedRepo(TxtNotes, <<TxtMachineLearning, TxtFrontend, TxtAndroid, TxtCli>>),
   NamedRepo(TxtAllSix, <<>>)}
DomainPrefixLengths == {13, 14, 15}
DomainRepoLists ==
  SeqsUpTo(DomainRepos, MaxDomainRepos)
  \cup {Rep(NamedRepo(TxtNotes, <<>>), p) \o s :
          p \in DomainPrefixLengths, s \in [1..2 -> DomainRepos]}

DomainBundles == {Bundle(ValidUser, r, <<>>) : r \in DomainRepoLists}

(* Language and topic inputs: more distinct languages and topics than the caps *)
LanguageNames ==
  <<"C", "Go", "Rust", "Java", "Ruby", "Perl", "Dart", "Lua", "Zig", "Nim",
    "PHP", "Elm">>
TopicTexts == <<TxtCli, TxtRust, TxtDocs, TxtGo, TxtTools, TxtAndroid, TxtFrontend>>
LanguageRepo(i) ==
  Repo(Val(IF i = 1 THEN TxtAllSix ELSE TxtNotes), Val(<<>>),
       Val(LanguageNames[i]), Val(i), Val(0), Missing,
       Val(<<TopicTexts[((i - 1) % Len(TopicTexts)) + 1]>>), Val(Ts(Now - 400)),
       Val(FALSE))
LanguageRepoCounts == {9, 10, 11, 12}
LanguageBundles ==
  {Bundle(ValidUser, [i \in 1..n |-> LanguageRepo(i)], e) :
     n \in LanguageRepoCounts, e \in {<<>>, Rep(RecentPush, 34)}}

(* Language-weight inputs: a repository without a size next to one with size 0 *)
WeightRepos ==
  {Repo(Val(TxtNotes), Val(<<>>), Val("Go"), Val(1), Val(0), Missing, Val(<<>>),
        Val(Ts(Now - 400)), Val(FALSE)),
   Repo(Val(TxtNotes), Val(<<>>), Val("C"), Val(2), Val(0), Val(0), Val(<<>>),
        Val(Ts(Now - 400)), Val(FALSE)),
   Repo(Val(TxtNotes), Val(<<>>), Val("Go"), Missing, Val(0), Val(3), Val(<<>>),
        Val(Ts(Now - 400)), Val(FALSE)),
   Repo(Val(TxtNotes), Val(<<>>), Null, Val(9), Val(0), Val(9), Val(<<>>),
        Val(Ts(Now - 400)), Val(FALSE))}
WeightBundles ==
  {Bundle(ValidUser, r, <<>>) : r \in [1..2 -> WeightRepos] \cup [1..3 -> WeightRepos]}

(* Upstream failures *)
FetchFailureBundles ==
  {[user_status |-> us, user |-> ValidUser, repos_status |-> rs,
    repos |-> <<FullRepo, ForkedMlRepo>>, events_status |-> es,
    events |-> <<RecentPush, RecentPR>>] :
     us \in {200, 403, 404, 500}, rs \in {200, 500}, es \in {200, 404}}

\* a failed list request next to sparse records in the list that arrived
DegradedSparseBundles ==
  {[user_status |-> 200, user |-> u, repos_status |-> 200, repos |-> <<r>>,
    events_status |-> es, events |-> <<RecentPush>>] :
     u \in SparseUsers, r \in {FullRepo, EmptyRepo, NullNameRepo, NullStarsRepo},
     es \in {404, 500}}
  \cup
  {[user_status |-> 200, user |-> u, repos_status |-> 500, repos |-> <<FullRepo>>,
    events_status |-> es, events |-> <<NullEvent, RecentPR>>] :
     u \in SparseUsers \cup {User(Val(Ts(Now - 400)), Null, Val(2))}, es \in {200, 404}}

Bundles ==
  SparseBundles \cup ExpertiseBundles \cup ComplexityBundles \cup ActivityBundles
  \cup CollabBundles \cup DomainBundles \cup LanguageBundles \cup WeightBundles
  \cup FetchFailureBundles \cup DegradedSparseBundles

NumSeeds == 2

-----------------------------------------------------------------------------
(* get_user_profile as a state machine: one action per step of the coroutine *)

NoData == <<>>

\* a request that gets no response: the session of line 89 has aiohttp's
\* default total timeout and ends the request with asyncio.TimeoutError
NoResponse == 0

Init ==
  /\ upstream \in Bundles
  /\ hashSeed \in 1..NumSeeds
  /\ pc = "fetch_user"
  /\ user_data = NoData
  /\ repos_data = NoData
  /\ events_data = NoData
  /\ repo_analysis = NoData
  /\ activity_analysis = NoData
  /\ all_languages = NoData
  /\ profile = NoData
  /\ error = "none"
  /\ first_profile = NoData
  /\ issued = <<>>
  /\ username = NoData
  /\ agent_name = NoData
  /\ agents = NoData
  /\ model = NoData
  /\ response = NoData

\* raise: the except clause logs and re-raises, nothing is returned
Raise(kind) ==
  /\ pc' = "raised"
  /\ error' = kind

\* lines 91-98
FetchUser ==
  /\ pc = "fetch_user"
  /\ issued' = Append(issued, "user")
  /\ IF upstream.user_status = NoResponse THEN Raise("timeout") /\ UNCHANGED user_data
     ELSE IF upstream.user_status = 404 THEN Raise("not_found") /\ UNCHANGED user_data
     ELSE IF upstream.user_status = 403 THEN Raise("rate_limit") /\ UNCHANGED user_data
     ELSE IF upstream.user_status # 200 THEN Raise("api_error") /\ UNCHANGED user_data
     ELSE /\ user_data' = upstream.user
          /\ pc' = "fetch_repos"
          /\ UNCHANGED error
  /\ UNCHANGED <<upstream, hashSeed, repos_data, events_data, repo_analysis,
                 activity_analysis, all_languages, profile, first_profile>>
  /\ UNCHANGED serviceVars

\* lines 101-105
FetchRepos ==
  /\ pc = "fetch_repos"
  /\ issued' = Append(issued, "repos")
  /\ IF upstream.repos_status = NoResponse THEN Raise("timeout") /\ UNCHANGED repos_data
     ELSE /\ repos_data' = IF upstream.repos_status = 200 THEN upstream.repos ELSE <<>>
          /\ pc' = "fetch_events"
          /\ UNCHANGED error
  /\ UNCHANGED <<upstream, hashSeed, user_data, events_data, repo_analysis,
                 activity_analysis, all_languages, profile, first_profile>>
  /\ UNCHANGED serviceVars

\* lines 108-112
FetchEvents ==
  /\ pc = "fetch_events"
  /\ issued' = Append(issued, "events")
  /\ IF upstream.events_status = NoResponse THEN Raise("timeout") /\ UNCHANGED events_data
     ELSE /\ events_data' = IF upstream.events_status = 200 THEN upstream.events ELSE <<>>
          /\ pc' = "analyze_repos"
          /\ UNCHANGED error
  /\ UNCHANGED <<upstream, hashSeed, user_data, repos_data, repo_analysis,
                 activity_analysis, all_languages, profile, first_profile>>
  /\ UNCHANGED serviceVars

\* line 115
AnalyzeRepositoriesStep ==
  /\ pc = "analyze_repos"
  /\ IF RepositoriesRaise(Take(repos_data, 20))
     THEN Raise(RepositoriesErrorKind(Take(repos_data, 20))) /\ UNCHANGED repo_analysis
     ELSE /\ repo_analysis' = AnalyzeRepositories(Take(repos_data, 20), hashSeed)
          /\ pc' = "analyze_activity"
          /\ UNCHANGED error
  /\ UNCHANGED <<upstream, hashSeed, user_data, repos_data, events_data,
                 activity_analysis, all_languages, profile, first_profile>>
  /\ UNCHANGED <<issued, serviceVars>>

\* line 118
AnalyzeActivityStep ==
  /\ pc = "analyze_activity"
  /\ activity_analysis' = AnalyzeActivityPatterns(events_data)
  /\ pc' = "language_stats"
  /\ UNCHANGED <<upstream, hashSeed, user_data, repos_data, events_data,
                 repo_analysis, all_languages, profile, error, first_profile>>
  /\ UNCHANGED <<issued, serviceVars>>

\* lines 120-135
LanguageStatsStep ==
  /\ pc = "language_stats"
  /\ IF LanguageStatsRaise(repos_data)
     THEN Raise("TypeError") /\ UNCHANGED all_languages
     ELSE /\ all_languages' = LanguageStats(repos_data)
          /\ pc' = "assemble"
          /\ UNCHANGED error
  /\ UNCHANGED <<upstream, hashSeed, user_data, repos_data, events_data,
                 repo_analysis, activity_analysis, profile, first_profile>>
  /\ UNCHANGED <<issued, serviceVars>>

\* lines 137-160
AssembleStep ==
  /\ pc = "assemble"
  /\ IF AssembleRaises(user_data, repos_data)
     THEN Raise(AssembleErrorKind(user_data, repos_data)) /\ UNCHANGED profile
     ELSE /\ profile' = AssembleProfile(user_data, repos_data, events_data,
                                        repo_analysis, activity_analysis, all_languages)
          /\ pc' = "returned"
          /\ UNCHANGED error
  /\ UNCHANGED <<upstream, hashSeed, user_data, repos_data, events_data,
                 repo_analysis, activity_analysis, all_languages, first_profile>>
  /\ UNCHANGED <<issued, serviceVars>>

Next ==
  \/ FetchUser
  \/ FetchRepos
  \/ FetchEvents
  \/ AnalyzeRepositoriesStep
  \/ AnalyzeActivityStep
  \/ LanguageStatsStep
  \/ AssembleStep

Spec == Init /\ [][Next]_vars

-----------------------------------------------------------------------------
(* A second analysis of the same upstream data by a freshly started process: *)
(* the interpreter draws a new hash seed at start-up (lines 666-673 start    *)
(* the server; PYTHONHASHSEED is not set anywhere)                           *)

Restart ==
  /\ pc = "returned"
  /\ first_profile = NoData
  /\ first_profile' = profile
  /\ hashSeed' \in 1..NumSeeds
  /\ pc' = "fetch_user"
  /\ user_data' = NoData
  /\ repos_data' = NoData
  /\ events_data' = NoData
  /\ repo_analysis' = NoData
  /\ activity_analysis' = NoData
  /\ all_languages' = NoData
  /\ profile' = NoData
  /\ issued' = <<>>
  /\ UNCHANGED <<upstream, error>>
  /\ UNCHANGED serviceVars

InitRerun == Init /\ upstream \in SparseBundles \cup FetchFailureBundles

NextRerun == Next \/ Restart

SpecRerun == InitRerun /\ [][NextRerun]_vars

-----------------------------------------------------------------------------
(* AgentService.analyze_github_profile and AIAgentClient.call_agent *)

\* str.strip(): leading and trailing whitespace removed
Whitespace == {" ", "\t", "\n"}

RECURSIVE StripLeft(_)
StripLeft(s) ==
  IF s # <<>> /\ Head(s) \in Whitespace THEN StripLeft(Tail(s)) ELSE s

Strip(s) == Reverse(StripLeft(Reverse(StripLeft(s))))

\* s.replace(c, '')
RemoveChar(s, c) == SelectSeq(s, LAMBDA x : x # c)

Digits == {"0", "1", "2", "3", "4", "5", "6", "7", "8", "9"}

\* str.isalnum(): non-empty and every character a letter or a digit
IsAlnum(s) ==
  s # <<>> /\ \A i \in 1..Len(s) :
                 s[i] \in Range(UpperLetters) \cup Range(LowerLetters) \cup Digits

\* the format check of line 595 left out
ValidationErrorNoFormat(name) ==
  IF name = <<>> \/ Strip(name) = <<>>
  THEN "Username cannot be empty. Please enter a valid GitHub username."
  ELSE IF Len(Strip(name)) > 39
  THEN "Username is too long. GitHub usernames must be 39 characters or less."
  ELSE "none"

\* lines 586-596: the message of the exception raised, "none" if none is
ValidationError(name) ==
  IF name = <<>> \/ Strip(name) = <<>>
  THEN "Username cannot be empty. Please enter a valid GitHub username."
  ELSE IF Len(Strip(name)) > 39
  THEN "Username is too long. GitHub usernames must be 39 characters or less."
  ELSE IF ~IsAlnum(RemoveChar(RemoveChar(Strip(name), "-"), "_"))
  THEN "Invalid username format. GitHub usernames can only contain letters, numbers, hyphens, and underscores."
  ELSE "none"

\* self.config.agents.get(agent_name, {}); a dict is a function, {} is <<>>
EmptyDict == <<>>
AgentConfigOf(table, name) == IF name \in DOMAIN table THEN table[name] ELSE EmptyDict

\* agent_config.get('parameters', {}).get(...) with 'parameters': null
CallAgentConfigRaises(agent_config) ==
  "parameters" \in DOMAIN agent_config /\ IsNull(agent_config.parameters)

\* the terms of lines 434-439 and the texts of Gemini failures
TxtApiKey == <<"A","P","I"," ","k","e","y">>
TxtAuthentication == <<"a","u","t","h","e","n","t","i","c","a","t","i","o","n">>
TxtRateLimit == <<"r","a","t","e"," ","l","i","m","i","t">>
TxtQuota == <<"q","u","o","t","a">>
TxtNetwork == <<"n","e","t","w","o","r","k">>
TxtConnection == <<"c","o","n","n","e","c","t","i","o","n">>
TxtNoResponseText == <<"N","o"," ","r","e","s","p","o","n","s","e"," ","t","e","x","t"," ","g","e","n","e","r","a","t","e","d">>
TxtQuotaExceeded == <<"4","2","9"," ","Q","u","o","t","a"," ","e","x","c","e","e","d","e","d">>
TxtConnectionReset == <<"C","o","n","n","e","c","t","i","o","n"," ","r","e","s","e","t"," ","b","y"," ","p","e","e","r">>
TxtApiKeyNotValid == <<"A","P","I"," ","k","e","y"," ","n","o","t"," ","v","a","l","i","d">>
TxtRecommendations == <<"1","."," ","B","u","i","l","d"," ","a"," ","C","L","I">>

\* lines 428-440: the message that replaces the one of a Gemini failure
GeminiErrorMessage(gemini_error) ==
  LET text == Lower(gemini_error)
      keyOrAuth == Contains(TxtApiKey, text) \/ Contains(TxtAuthentication, text)
  IN  IF keyOrAuth
      THEN "AI service authentication failed. Please check the API key configuration."
      ELSE IF Contains(TxtRateLimit, text) \/ Contains(TxtQuota, text)
      THEN "AI service rate limit exceeded. Please try again in a few minutes."
      ELSE IF Contains(TxtNetwork, text) \/ Contains(TxtConnection, text)
      THEN "Unable to connect to AI service. Please check your internet connection and try again."
      ELSE "AI service temporarily unavailable. Please try again later."

\* str(e) of the exception get_user_profile re-raises
ErrorMessage(kind) ==
  CASE kind = "not_found" ->
         "GitHub user not found. Please check the username and try again."
    [] kind = "rate_limit" ->
         "GitHub API rate limit exceeded. Please try again in a few minutes."
    [] kind = "api_error" -> "GitHub API error: Unable to fetch profile"
    [] kind = "timeout" -> ""
    [] kind = "KeyError" -> "'name'"
    [] kind = "TypeError" -> "unsupported operand type(s)"
    [] kind = "AttributeError" -> "'NoneType' object has no attribute 'lower'"

\* lines 610-615
SuccessResponse(agent, recommendations, prof) ==
  [success |-> TRUE, agent |-> agent, recommendations |-> Val(recommendations),
   profile |-> Val(prof), error |-> Null]

\* lines 619-623: AnalysisResponse(success=False, agent=agent_name, error=str(e))
FailureResponse(agent, message) ==
  [success |-> FALSE, agent |-> agent, recommendations |-> Null,
   profile |-> Null, error |-> Val(message)]

(* The request, the configuration and the environment of one call *)

Usernames ==
  {<<>>, <<" ">>, <<" ", "\t">>, <<"a">>, <<"a", "7">>, <<"a", "-", "b">>,
   <<"Z", "_", "7">>, <<" ", "a", " ">>, <<"\t", "a", "-", "\n">>, <<"-">>,
   <<"_", "-">>, <<"a", "!">>, <<"a", " ", "b">>, <<"a", ".", "b">>,
   Rep("a", 39), Rep("a", 40), <<" ">> \o Rep("a", 39) \o <<" ">>,
   Rep("-", 38) \o <<"a", "b">>}

AgentNames == {"hackathon_recommender", "code_reviewer"}

\* lines 63-68: the default table
DefaultAgents ==
  [n \in {"hackathon_recommender"} |->
     [name |-> "Hackathon Project Recommender",
      description |-> "Analyzes GitHub profiles to recommend personalized hackathon projects"]]

\* tables as agents.yaml can give them: an agent with an empty entry, an
\* agent whose parameters are null, no agent at all
AgentTables ==
  {DefaultAgents,
   [n \in {"hackathon_recommender", "code_reviewer"} |->
      IF n = "code_reviewer" THEN EmptyDict
      ELSE [name |-> "Hackathon Project Recommender", parameters |-> Null]],
   EmptyDict}

\* self.model: None without GEMINI_API_KEY, else what generate_content does
Models ==
  {Null,
   Val([raises |-> FALSE, text |-> TxtRecommendations]),
   Val([raises |-> FALSE, text |-> <<>>]),
   Val([raises |-> TRUE, text |-> TxtQuotaExceeded]),
   Val([raises |-> TRUE, text |-> TxtConnectionReset]),
   Val([raises |-> TRUE, text |-> TxtApiKeyNotValid])}

ServiceBundles ==
  {Bundle(ValidUser, <<FullRepo, ForkedMlRepo>>, <<RecentPush, RecentPR>>),
   Bundle(ValidUser, <<>>, <<>>),
   Bundle(ValidUser, <<NullNameRepo>>, <<RecentPush>>),
   Bundle(ValidUser, <<EmptyRepo>>, <<>>),
   Bundle(User(Missing, Null, Missing), <<FullRepo>>, <<>>)}
  \cup
  {[user_status |-> us, user |-> ValidUser, repos_status |-> 200,
    repos |-> <<FullRepo>>, events_status |-> 200, events |-> <<RecentPR>>] :
     us \in {404, 403, 500, NoResponse}}
  \cup
  {[user_status |-> 200, user |-> ValidUser, repos_status |-> rs,
    repos |-> <<FullRepo>>, events_status |-> es, events |-> <<RecentPR>>] :
     rs \in {500, NoResponse}, es \in {200, NoResponse}}

InitService ==
  /\ upstream \in ServiceBundles
  /\ hashSeed \in 1..NumSeeds
  /\ username \in Usernames
  /\ agent_name \in AgentNames
  /\ agents \in AgentTables
  /\ model \in Models
  /\ pc = "validate"
  /\ user_data = NoData
  /\ repos_data = NoData
  /\ events_data = NoData
  /\ repo_analysis = NoData
  /\ activity_analysis = NoData
  /\ all_languages = NoData
  /\ profile = NoData
  /\ error = "none"
  /\ first_profile = NoData
  /\ issued = <<>>
  /\ response = NoData

analysisVars ==
  <<upstream, hashSeed, user_data, repos_data, events_data, repo_analysis,
    activity_analysis, all_languages, profile, error, first_profile>>

\* lines 586-596
ValidateUsername ==
  /\ pc = "validate"
  /\ IF ValidationError(username) # "none"
     THEN /\ response' = FailureResponse(agent_name, ValidationError(username))
          /\ pc' = "responded"
          /\ UNCHANGED username
     ELSE /\ username' = Strip(username)
          /\ pc' = "lookup_agent"
          /\ UNCHANGED response
  /\ UNCHANGED <<analysisVars, issued, agent_name, agents, model>>

\* lines 598-600
LookupAgent ==
  /\ pc = "lookup_agent"
  /\ IF AgentConfigOf(agents, agent_name) = EmptyDict
     THEN /\ response' = FailureResponse(agent_name, "Agent not found in configuration")
          /\ pc' = "responded"
     ELSE /\ pc' = "fetch_user"
          /\ UNCHANGED response
  /\ UNCHANGED <<analysisVars, issued, username, agent_name, agents, model>>

\* line 605 raised: the except clause of lines 617-623
ProfileFetchFailed ==
  /\ pc = "raised"
  /\ response' = FailureResponse(agent_name, ErrorMessage(error))
  /\ pc' = "responded"
  /\ UNCHANGED <<analysisVars, issued, username, agent_name, agents, model>>

\* line 608 with call_agent (lines 415-447) and _call_gemini (lines 547-571),
\* then the return of lines 610-615 or the except clause of lines 617-623
CallAgent ==
  /\ pc = "returned"
  /\ pc' = "responded"
  /\ IF CallAgentConfigRaises(AgentConfigOf(agents, agent_name))
     THEN /\ response' = FailureResponse(agent_name,
                           "'NoneType' object has no attribute 'get'")
          /\ UNCHANGED issued
     ELSE IF IsNull(model)
     THEN /\ response' = FailureResponse(agent_name,
                           "AI service is not configured. Please check your Gemini API key configuration.")
          /\ UNCHANGED issued
     ELSE /\ issued' = Append(issued, "generate_content")
          /\ response' =
               IF model[2].raises
               THEN FailureResponse(agent_name, GeminiErrorMessage(model[2].text))
               ELSE IF model[2].text = <<>>
               THEN FailureResponse(agent_name, GeminiErrorMessage(TxtNoResponseText))
               ELSE SuccessResponse(agent_name, model[2].text, profile)
  /\ UNCHANGED <<analysisVars, username, agent_name, agents, model>>

NextService ==
  \/ ValidateUsername
  \/ LookupAgent
  \/ Next
  \/ ProfileFetchFailed
  \/ CallAgent

SpecService == InitService /\ [][NextService]_vars

-----------------------------------------------------------------------------
(* Properties *)

Finished == pc \in {"returned", "raised"}

\* the three requests were answered and the analysis ran on what they gave
AnalysisRan ==
  Finished /\ error \notin {"not_found", "rate_limit", "api_error", "timeout"}

\* a user record whose numeric fields are numbers or absent
ValidUserRecord(user) == ~IsNull(user.public_repos) /\ ~IsNull(user.followers)

Returned == pc = "returned"

\* C1 as stated: the analysis of a valid user with no repositories and no
\* events returns activity tier 'moderate', complexity tier 'intermediate'
\* (in repo_analysis and as project_complexity_preference) and collaboration
\* style 'independent'
C1_EmptyInputIntermediate ==
  (AnalysisRan /\ ValidUserRecord(user_data) /\ repos_data = <<>> /\ events_data = <<>>)
  => /\ Returned
     /\ profile.activity_analysis.activity_type = "moderate"
     /\ profile.repo_analysis.avg_complexity = "intermediate"
     /\ profile.project_complexity_preference = "intermediate"
     /\ profile.collaboration_style = "independent"

\* C1 amended: the analysis of a valid user with no repositories and no
\* events raises nothing and returns activity tier 'moderate', complexity
\* tier 'beginner' (zero average stars, zero forks) and collaboration style
\* 'independent'
C1_EmptyInputTotality ==
  (AnalysisRan /\ ValidUserRecord(user_data) /\ repos_data = <<>> /\ events_data = <<>>)
  => /\ Returned
     /\ profile.activity_analysis.activity_type = "moderate"
     /\ profile.repo_analysis.avg_complexity = "beginner"
     /\ profile.project_complexity_preference = "beginner"
     /\ profile.collaboration_style = "independent"

C1_Witness ==
  Returned /\ repos_data = <<>> /\ events_data = <<>> /\ upstream.repos_status = 200

ProfileKeys ==
  {"expertise_level", "repo_analysis", "activity_analysis", "preferred_domains",
   "collaboration_style", "recent_activity_score", "technology_diversity",
   "project_complexity_preference"}

\* C2 as stated: for every well-typed input, optional repository and event
\* fields missing or null included, the analysis does not fail and the
\* profile has every contracted key with each tier in its vocabulary
C2_SparseInputContract ==
  (AnalysisRan /\ ValidUserRecord(user_data))
  => /\ Returned
     /\ ProfileKeys \subseteq DOMAIN profile
     /\ profile.expertise_level \in {"newcomer", "beginner", "intermediate", "expert"}
     /\ profile.repo_analysis.avg_complexity \in {"beginner", "intermediate", "advanced"}
     /\ profile.project_complexity_preference \in {"beginner", "intermediate", "advanced"}
     /\ profile.activity_analysis.activity_type
          \in {"low", "moderate", "active", "very_active"}
     /\ profile.activity_analysis.collaboration_level
          \in {"individual", "mixed", "collaborative"}
     /\ profile.collaboration_style \in {"independent", "mixed", "collaborative"}

\* C3 as stated: a second analysis of identical raw input returns a profile
\* identical to the first in every field, list order included
C3_Deterministic ==
  (Returned /\ first_profile # NoData) => profile = first_profile

\* C4: a returned profile has at most 10 languages, at most 5 popular topics,
\* at most 5 preferred domains and a recent activity score within 0..100
C4_CapInvariants ==
  Returned
  => /\ Len(profile.languages) <= 10
     /\ Len(profile.repo_analysis.popular_topics) <= 5
     /\ Len(profile.preferred_domains) <= 5
     /\ profile.recent_activity_score >= 0
     /\ profile.recent_activity_score <= 100

\* every cap bites: more than 10 languages, 5 topics and 5 domains in the
\* input, and more than 33 recent events
C4_Witness ==
  /\ Returned
  /\ Cardinality({repos_data[i].language : i \in 1..Len(repos_data)}) > 10
  /\ Len(profile.languages) = 10
  /\ Cardinality(UNION {Range(RepoTopics(repos_data[i])) : i \in 1..Len(repos_data)}) > 5
  /\ Len(profile.repo_analysis.popular_topics) = 5
  /\ Cardinality(Range(DomainsList(Take(repos_data, 15)))) > 5
  /\ Len(profile.preferred_domains) = 5
  /\ Len(events_data) > 33
  /\ profile.recent_activity_score = 100

\* the integer part of a / b for b > 0, as int() of a float gives it
IntPart(a, b) ==
  IF a >= 0 THEN CHOOSE q \in 0..a : q * b <= a /\ a < (q + 1) * b
  ELSE CHOOSE q \in a..0 : (q - 1) * b < a /\ a <= q * b

StarsOfFirst10 ==
  SumSeq([i \in 1..Min(10, Len(repos_data)) |->
            IF IsVal(repos_data[i].stargazers_count)
            THEN repos_data[i].stargazers_count[2] ELSE 0])

AccountAgeDays == Now - user_data.created_at[2].day

CreatedParses == IsVal(user_data.created_at) /\ user_data.created_at[2].ok

PublicRepos == IF IsVal(user_data.public_repos) THEN user_data.public_repos[2] ELSE 0

Followers == IF IsVal(user_data.followers) THEN user_data.followers[2] ELSE 0

\* the five factors as C5 states them, without rounding, times 36500
\* (years = days / 365, so years * 10 * 36500 = days * 1000)
C5_StatedSum36500 ==
  (IF CreatedParses THEN Min(AccountAgeDays * 1000, 30 * 36500) ELSE 10 * 36500)
  + Min(PublicRepos * 2, 25) * 36500
  + Min(Followers * 18250, 20 * 36500)
  + profile.recent_activity_score * 5475
  + Min(StarsOfFirst10 * 7300, 10 * 36500)

\* C5 as stated: the expertise tier is the tier of the sum of
\* min(years*10, 30) (10 without a parseable creation time),
\* min(public_repos*2, 25), min(followers*0.5, 20), activity_score*0.15 and
\* min(stars of the first 10 repositories*0.2, 10): above 70 'expert', above
\* 40 'intermediate', above 15 'beginner', else 'newcomer'
C5_ExpertiseUnrounded ==
  Returned
  => profile.expertise_level =
       (IF C5_StatedSum36500 > 70 * 36500 THEN "expert"
        ELSE IF C5_StatedSum36500 > 40 * 36500 THEN "intermediate"
        ELSE IF C5_StatedSum36500 > 15 * 36500 THEN "beginner"
        ELSE "newcomer")

\* the five factors with the age and complexity factors cut to their
\* integer parts, times 100
C5_Sum100 ==
  (IF CreatedParses THEN Min(IntPart(AccountAgeDays * 10, 365), 30) ELSE 10) * 100
  + Min(PublicRepos * 2, 25) * 100
  + Min(Followers * 50, 2000)
  + profile.recent_activity_score * 15
  + Min(IntPart(StarsOfFirst10, 5), 10) * 100

\* C5 amended: the expertise tier is the tier of the sum of
\* min(int(years*10), 30) (10 without a parseable creation time),
\* min(public_repos*2, 25), min(followers*0.5, 20), activity_score*0.15 and
\* min(int(stars of the first 10 repositories*0.2), 10), int() cutting to an
\* integer: above 70 'expert', above 40 'intermediate', above 15 'beginner',
\* else 'newcomer'
C5_ExpertiseTier ==
  Returned
  => profile.expertise_level =
       (IF C5_Sum100 > 7000 THEN "expert"
        ELSE IF C5_Sum100 > 4000 THEN "intermediate"
        ELSE IF C5_Sum100 > 1500 THEN "beginner"
        ELSE "newcomer")

\* a sum of exactly 70 gives 'intermediate'
C5_Witness ==
  Returned /\ C5_Sum100 = 7000 /\ profile.expertise_level = "intermediate"

AnalyzedRepos == SubSeq(repos_data, 1, Min(20, Len(repos_data)))

StarsAnalyzed ==
  SumSeq([i \in 1..Len(AnalyzedRepos) |->
            IF IsVal(AnalyzedRepos[i].stargazers_count)
            THEN AnalyzedRepos[i].stargazers_count[2] ELSE 0])

ForksAnalyzed ==
  SumSeq([i \in 1..Len(AnalyzedRepos) |->
            IF IsVal(AnalyzedRepos[i].forks_count)
            THEN AnalyzedRepos[i].forks_count[2] ELSE 0])

\* C6: over the repositories passed to the repository analysis, the tier is
\* 'advanced' if the average stars exceed 50 or the forks exceed 20, else
\* 'beginner' if the average stars are below 5 and the forks below 3, else
\* 'intermediate' (average = total / max(count, 1))
C6_ComplexityTier ==
  repo_analysis # NoData
  => LET count == IF Len(AnalyzedRepos) = 0 THEN 1 ELSE Len(AnalyzedRepos)
     IN  /\ repo_analysis.total_stars = StarsAnalyzed
         /\ repo_analysis.total_forks = ForksAnalyzed
         /\ repo_analysis.avg_complexity =
              (IF StarsAnalyzed > 50 * count \/ ForksAnalyzed > 20 THEN "advanced"
               ELSE IF StarsAnalyzed < 5 * count /\ ForksAnalyzed < 3 THEN "beginner"
               ELSE "intermediate")

\* 501 stars over 10 repositories give 'advanced'
C6_Witness ==
  /\ repo_analysis # NoData
  /\ Len(repos_data) = 10
  /\ StarsAnalyzed = 501
  /\ ForksAnalyzed <= 20
  /\ repo_analysis.avg_complexity = "advanced"

InWindow(ev) ==
  IsVal(ev.created_at) /\ ev.created_at[2].ok /\ ev.created_at[2].day > Now - 30

RecentEvents == {i \in 1..Len(events_data) : InWindow(events_data[i])}

HasType(ev, names) == IsVal(ev.type) /\ ev.type[2] \in names

\* C7: with n the events inside the last 30 days, the score is min(3n, 100)
\* and the tier 'very_active' above 20, 'active' above 10, 'moderate' above
\* 3, else 'low'; the empty event list gives score 0, 'moderate', 'individual'
C7_ActivityScoreAndTier ==
  activity_analysis # NoData
  => LET n == Cardinality(RecentEvents)
     IN  IF events_data = <<>>
         THEN /\ activity_analysis.recent_activity_score = 0
              /\ activity_analysis.activity_type = "moderate"
              /\ activity_analysis.collaboration_level = "individual"
         ELSE /\ activity_analysis.recent_activity_score
                   = (IF 3 * n < 100 THEN 3 * n ELSE 100)
              /\ activity_analysis.activity_type =
                   (IF n > 20 THEN "very_active"
                    ELSE IF n > 10 THEN "active"
                    ELSE IF n > 3 THEN "moderate"
                    ELSE "low")

\* 34 recent events: the score is capped at 100
C7_Witness ==
  /\ activity_analysis # NoData
  /\ Cardinality(RecentEvents) >= 34
  /\ activity_analysis.recent_activity_score = 100
  /\ activity_analysis.activity_type = "very_active"

ForkedCount ==
  Cardinality({i \in 1..Len(repos_data) :
                 IsVal(repos_data[i].fork) /\ repos_data[i].fork[2] = TRUE})

CollabEventCount ==
  Cardinality({i \in 1..Len(events_data) :
     HasType(events_data[i], {"ForkEvent", "PullRequestEvent", "IssuesEvent"})})

\* C8: the style is 'collaborative' if the forked repositories exceed half
\* the original ones or more than 5 events are fork, pull-request or issue
\* events, else 'mixed' if there is any forked repository or any such event,
\* else 'independent'
C8_CollaborationStyle ==
  Returned
  => LET original == Len(repos_data) - ForkedCount
     IN  profile.collaboration_style =
           (IF 2 * ForkedCount > original \/ CollabEventCount > 5 THEN "collaborative"
            ELSE IF ForkedCount > 0 \/ CollabEventCount > 0 THEN "mixed"
            ELSE "independent")

\* 10 repositories, 6 of them forked, no collaboration event
C8_Witness ==
  /\ Returned
  /\ Len(repos_data) = 10
  /\ ForkedCount = 6
  /\ CollabEventCount = 0
  /\ profile.collaboration_style = "collaborative"

\* C9: for a non-empty event list, with the push events and the pull-request
\* or issue events counted inside the 30-day window only, the level is
\* 'collaborative' if pr > 0.3 * push, else 'mixed' if pr > 0, else
\* 'individual'
C9_CollaborationLevel ==
  (activity_analysis # NoData /\ events_data # <<>>)
  => LET push == Cardinality({i \in RecentEvents :
                    HasType(events_data[i], {"PushEvent"})})
         pr == Cardinality({i \in RecentEvents :
                    HasType(events_data[i], {"PullRequestEvent", "IssuesEvent"})})
     IN  activity_analysis.collaboration_level =
           (IF 10 * pr > 3 * push THEN "collaborative"
            ELSE IF pr > 0 THEN "mixed"
            ELSE "individual")

\* pull-request events outside the window, none inside: 'individual'
C9_Witness ==
  /\ activity_analysis # NoData
  /\ \E i \in 1..Len(events_data) :
        /\ i \notin RecentEvents
        /\ HasType(events_data[i], {"PullRequestEvent"})
        /\ IsVal(events_data[i].created_at) /\ events_data[i].created_at[2].ok
  /\ \E i \in RecentEvents : HasType(events_data[i], {"PushEvent"})
  /\ ~ \E i \in RecentEvents :
          HasType(events_data[i], {"PullRequestEvent", "IssuesEvent"})
  /\ activity_analysis.collaboration_level = "individual"

\* the labels matched by the first 15 repositories, in the order matched
First15Matches == DomainsList(SubSeq(repos_data, 1, Min(15, Len(repos_data))))

\* C10: preferred_domains lists distinct labels matched by the first 15
\* repositories, by descending tally, equal tallies in the order first
\* matched, the top 5 only
C10_DomainRanking ==
  Returned
  => LET occ == First15Matches
         labels == {occ[i] : i \in 1..Len(occ)}
         tally(l) == Cardinality({i \in 1..Len(occ) : occ[i] = l})
         first(l) == CHOOSE i \in 1..Len(occ) :
                        occ[i] = l /\ \A j \in 1..(i - 1) : occ[j] # l
         before(a, b) ==
           tally(a) > tally(b) \/ (tally(a) = tally(b) /\ first(a) < first(b))
         r == profile.preferred_domains
     IN  /\ Len(r) = (IF Cardinality(labels) < 5 THEN Cardinality(labels) ELSE 5)
         /\ \A i \in 1..Len(r) : r[i] \in labels
         /\ \A i, j \in 1..Len(r) : i < j => before(r[i], r[j])
         /\ \A l \in labels :
              (\A i \in 1..Len(r) : r[i] # l) => \A i \in 1..Len(r) : before(r[i], l)

\* a repository after the 15th matches a label, and tied labels are ranked
C10_Witness ==
  /\ Returned
  /\ Len(repos_data) > 15
  /\ DomainsList(SubSeq(repos_data, 16, Len(repos_data))) # <<>>
  /\ Len(profile.preferred_domains) >= 2
  /\ profile.preferred_domains # MostCommon(DomainsList(repos_data), 5)

\* the languages of the repositories that have one, in repository order
LanguageOccurrences ==
  LET idx == {i \in 1..Len(repos_data) :
                IsVal(repos_data[i].language) /\ repos_data[i].language[2] # ""}
  IN  [k \in 1..Cardinality(idx) |->
         repos_data[CHOOSE i \in idx : Cardinality({j \in idx : j < i}) = k - 1].language[2]]

\* the summed weight (stars + 1) * (size + 1) of a language, an absent size
\* counting as sizeDefault and an absent star count as 0
LanguageWeight(l, sizeDefault) ==
  SumSeq([i \in 1..Len(repos_data) |->
    IF IsVal(repos_data[i].language) /\ repos_data[i].language[2] = l
    THEN ((IF IsVal(repos_data[i].stargazers_count)
           THEN repos_data[i].stargazers_count[2] ELSE 0) + 1)
         * ((IF IsVal(repos_data[i].size)
             THEN repos_data[i].size[2] ELSE sizeDefault) + 1)
    ELSE 0])

\* the first n members of S by descending w, equal w in the order of pos
RankedTop(S, w(_), pos(_), n) ==
  LET before(a, b) == w(a) > w(b) \/ (w(a) = w(b) /\ pos(a) < pos(b))
  IN  [i \in 1..(IF Cardinality(S) < n THEN Cardinality(S) ELSE n) |->
         CHOOSE k \in S : Cardinality({j \in S : before(j, k)}) = i - 1]

\* c with every repeated element removed, the first occurrence kept
FirstOccurrences(c) ==
  LET keep == {i \in 1..Len(c) : \A j \in 1..(i - 1) : c[j] # c[i]}
  IN  [k \in 1..Cardinality(keep) |->
         c[CHOOSE i \in keep : Cardinality({j \in keep : j < i}) = k - 1]]

\* the merged list of C11, for a given default of an absent size
MergedLanguages(sizeDefault) ==
  LET occ == LanguageOccurrences
      S == {occ[i] : i \in 1..Len(occ)}
      pos(l) == CHOOSE i \in 1..Len(occ) : occ[i] = l /\ \A j \in 1..(i - 1) : occ[j] # l
      count(l) == Cardinality({i \in 1..Len(occ) : occ[i] = l})
      weight(l) == LanguageWeight(l, sizeDefault)
      merged == FirstOccurrences(RankedTop(S, weight, pos, 8) \o RankedTop(S, count, pos, 8))
  IN  SubSeq(merged, 1, IF Len(merged) < 10 THEN Len(merged) ELSE 10)

\* C11: the languages list is the top 8 languages by summed weight
\* (stars+1)*(size+1) followed by the top 8 by repository count, repeats
\* removed keeping the first occurrence, cut to 10 entries; it has no
\* duplicates and technology_diversity is its length (absent stars and an
\* absent size count as 0, the documented default of a missing field)
C11_LanguageMerge ==
  Returned
  => /\ profile.languages = MergedLanguages(0)
     /\ \A i, j \in 1..Len(profile.languages) :
          i # j => profile.languages[i] # profile.languages[j]
     /\ profile.technology_diversity = Len(profile.languages)

\* a repository whose updated_at is present and cannot be parsed
MalformedUpdatedAt(repo) == IsVal(repo.updated_at) /\ ~repo.updated_at[2].ok

\* an event whose created_at is missing or cannot be parsed
UntimedEvent(ev) == ~IsVal(ev.created_at) \/ ~ev.created_at[2].ok

MalformedRepos == {i \in 1..Len(AnalyzedRepos) : MalformedUpdatedAt(AnalyzedRepos[i])}

UntimedEvents == {i \in 1..Len(events_data) : UntimedEvent(events_data[i])}

AllTopics ==
  UNION {Range(RepoTopics(AnalyzedRepos[i])) : i \in 1..Len(AnalyzedRepos)}

\* C12: with a repository whose updated_at cannot be parsed, or an event
\* whose created_at is missing or cannot be parsed, among the records, the
\* analysis completes; such a repository never sets the recent-activity
\* flag while its stars, forks, topics and keyword matches are aggregated,
\* and such an event is counted neither as recent nor as a push or
\* pull-request event
C12_MalformedTimestamps ==
  (AnalysisRan /\ (MalformedRepos # {} \/ UntimedEvents # {}))
  => /\ Returned
     /\ profile.repo_analysis.recent_activity
          = (\E i \in 1..Len(AnalyzedRepos) :
               /\ i \notin MalformedRepos
               /\ IsVal(AnalyzedRepos[i].updated_at)
               /\ AnalyzedRepos[i].updated_at[2].day > Now - 180)
     /\ profile.repo_analysis.total_stars = StarsAnalyzed
     /\ profile.repo_analysis.total_forks = ForksAnalyzed
     /\ \A i \in MalformedRepos :
          /\ RepoFrameworks(AnalyzedRepos[i])
               \subseteq Range(profile.repo_analysis.frameworks_used)
          /\ RepoProjectTypes(AnalyzedRepos[i])
               \subseteq Range(profile.repo_analysis.project_types)
          /\ Cardinality(AllTopics) <= 5
               => Range(RepoTopics(AnalyzedRepos[i]))
                    \subseteq Range(profile.repo_analysis.popular_topics)
     /\ LET timed == (1..Len(events_data)) \ UntimedEvents
            recent == {i \in timed : events_data[i].created_at[2].day > Now - 30}
            push == Cardinality({i \in recent : HasType(events_data[i], {"PushEvent"})})
            pr == Cardinality({i \in recent :
                     HasType(events_data[i], {"PullRequestEvent", "IssuesEvent"})})
        IN  /\ profile.activity_analysis.recent_activity_score
                 = (IF 3 * Cardinality(recent) < 100 THEN 3 * Cardinality(recent) ELSE 100)
            /\ events_data # <<>>
                 => profile.activity_analysis.collaboration_level
                      = (IF 10 * pr > 3 * push THEN "collaborative"
                         ELSE IF pr > 0 THEN "mixed"
                         ELSE "individual")

\* C13: when the user request is answered 200 and the repository or the
\* event request is not, the failed list is empty and a complete profile is
\* returned; when the user request is answered 404, 403 or another non-200
\* status, an error is raised, no profile is produced and the repository
\* and event requests are not issued
C13_DegradedFetch ==
  Finished
  => IF upstream.user_status = 200
     THEN (upstream.repos_status # 200 \/ upstream.events_status # 200)
          => /\ upstream.repos_status # 200 => repos_data = <<>>
             /\ upstream.events_status # 200 => events_data = <<>>
             /\ Returned
             /\ ProfileKeys \subseteq DOMAIN profile
             /\ profile.repository_count = Len(repos_data)
     ELSE /\ pc = "raised"
          /\ error = (IF upstream.user_status = 404 THEN "not_found"
                      ELSE IF upstream.user_status = 403 THEN "rate_limit"
                      ELSE "api_error")
          /\ profile = NoData
          /\ issued = <<"user">>

\* the username without its leading and trailing whitespace
Trimmed ==
  LET inner == {i \in 1..Len(username) : username[i] \notin Whitespace}
  IN  IF inner = {} THEN <<>>
      ELSE SubSeq(username, CHOOSE i \in inner : \A j \in inner : i <= j,
                            CHOOSE i \in inner : \A j \in inner : i >= j)

\* non-empty after trimming, at most 39 characters, alphanumeric once '-'
\* and '_' are removed
UsernamePasses ==
  /\ Trimmed # <<>>
  /\ Len(Trimmed) <= 39
  /\ \E i \in 1..Len(Trimmed) : Trimmed[i] \notin {"-", "_"}
  /\ \A i \in 1..Len(Trimmed) :
       \/ Trimmed[i] \in {"-", "_"} \cup Digits
       \/ \E k \in 1..26 : Trimmed[i] \in {UpperLetters[k], LowerLetters[k]}

AgentPresent == agent_name \in DOMAIN agents

GitHubRequests == {"user", "repos", "events"}

\* C14: a GitHub request is issued only after the username has passed every
\* validation and the agent is present in the configuration; the generation
\* call is issued only after the profile fetch has returned; once a step
\* has failed no later step is executed
C14_PipelineOrdering ==
  /\ issued # <<>>
       => /\ UsernamePasses
          /\ AgentPresent
          /\ pc \notin {"validate", "lookup_agent"}
          /\ issued[1] = "user"
  /\ "generate_content" \in Range(issued)
       => /\ profile # NoData
          /\ error = "none"
          /\ issued = <<"user", "repos", "events", "generate_content">>
  /\ pc = "responded"
       => /\ (~UsernamePasses \/ ~AgentPresent) => issued = <<>>
          /\ error # "none" => Range(issued) \subseteq GitHubRequests
          /\ error \in {"not_found", "rate_limit", "api_error"} => issued = <<"user">>

\* the whole pipeline has run for a username that needed trimming
C14_Witness ==
  /\ pc = "responded"
  /\ response.success
  /\ username = <<"a", "-">>
  /\ issued = <<"user", "repos", "events", "generate_content">>

\* the positions from which a step of the handler continues: an exception
\* of any step is at "raised" or is answered at once, never left unhandled
StepsWithSuccessor ==
  {"validate", "lookup_agent", "fetch_user", "fetch_repos", "fetch_events",
   "analyze_repos", "analyze_activity", "language_stats", "assemble",
   "returned", "raised"}

\* C15: the operation always ends with a response; success is true exactly
\* when recommendations and profile are present and error is absent; when
\* the validation, the profile fetch or the generation call fails, success
\* is false, the error message is non-empty and neither profile nor
\* recommendations are present
C15_ResponseInvariant ==
  /\ pc # "responded" => pc \in StepsWithSuccessor
  /\ pc = "responded"
       => /\ response.success
               = (/\ IsVal(response.recommendations)
                  /\ IsVal(response.profile)
                  /\ IsNull(response.error))
          /\ (\/ ~UsernamePasses
              \/ error # "none"
              \/ IsNull(model)
              \/ (IsVal(model) /\ (model[2].raises \/ model[2].text = <<>>)))
               => ~response.success
          /\ ~response.success
               => /\ IsVal(response.error)
                  /\ response.error[2] # ""
                  /\ IsNull(response.profile)
                  /\ IsNull(response.recommendations)
====
